---- MODULE Spec2Model ----
(***************************************************************************)
(* Model of the audio combination engine of main.py: generate_silence,     *)
(* _validate_and_collect_segments, _write_silence, _write_segment and      *)
(* combine_wav_segments.                                                   *)
(*                                                                         *)
(* A WAV container (the wav_bytes of a segment) is modelled by what the    *)
(* wave module reads from it: whether the byte buffer is empty, whether    *)
(* its header parses, its (nchannels, sampwidth, framerate) and the number *)
(* of frames of its data chunk.  Durations are dyadic rationals: the       *)
(* integer d stands for d / DurDen seconds, which binary floating point    *)
(* represents exactly, so duration_sec * framerate is exact as well.       *)
(***************************************************************************)
EXTENDS Integers, Sequences, FiniteSets, TLC

\* ------------------------------------------------------------------ bounds

\* Longest input list (segments_with_speaker_id) explored.
MaxLen == 3

\* Most environment faults (read, write, memory errors) injected in one run.
MaxFaults == 2

\* Denominator of the duration unit: duration d means d / DurDen seconds.
DurDen == 8

\* Speaker ids (mapped VOICEVOX ids) of the inputs.
SpeakerIds == {0, 1}

\* Python's None for an Optional[WaveParams]: the empty tuple, falsy like None.
NoParams == << >>

\* Python's None for Optional[SpeakerId]; speaker ids are non-negative.
NoSpeaker == 0 - 1

\* (nchannels, sampwidth, framerate) of the containers explored: a reference
\* format, one differing in the frame rate only, one differing in channels
\* and sample width, and a 40-bit one, which the wave reader accepts and the
\* wave writer refuses (setsampwidth takes 1..4).
FmtA == <<1, 2, 4>>
FmtB == <<1, 2, 3>>
FmtC == <<2, 1, 4>>
FmtD == <<1, 5, 4>>

\* wav_bytes: b'' ; bytes wave.open rejects ; containers that parse.
EmptyBytes == [kind |-> "empty", params |-> NoParams, nframes |-> 0]
CorruptBytes == [kind |-> "corrupt", params |-> NoParams, nframes |-> 0]
Wav(p, n) == [kind |-> "wav", params |-> p, nframes |-> n]

\* The (speaker_id, wav_bytes) pairs explored: both speakers for the
\* two-frame container of the first format, one speaker for the rest.
Segments ==
    [speaker : SpeakerIds, wav : {Wav(FmtA, 2)}]
        \cup [speaker : {0},
              wav : {EmptyBytes, CorruptBytes, Wav(FmtA, 0), Wav(FmtB, 1),
                     Wav(FmtC, 1), Wav(FmtD, 1)}]

\* (silence_duration_same_speaker, silence_duration_diff_speaker) pairs.
GapPairs == {<<3, 5>>, <<0, 1>>, <<5, 0 - 1>>}

\* ------------------------------------------------- generate_silence (pure)

\* int() replaced by round(): the quotient rounded to the nearest integer.
RoundDiv(x, den) ==
    IF x >= 0 THEN (2 * x + den) \div (2 * den)
    ELSE 0 - ((2 * (0 - x) + den) \div (2 * den))

\* int(x / DurDen) for an integer numerator x: Python's int() truncates
\* towards zero.
TruncDiv(x, den) == IF x >= 0 THEN x \div den ELSE 0 - ((0 - x) \div den)

RECURSIVE Pow256(_)
Pow256(k) == IF k = 0 THEN 1 ELSE 256 * Pow256(k - 1)

\* Size in bytes of one struct format character.
StructSize(ch) == CASE ch = "B" -> 1 [] ch = "h" -> 2 [] ch = "i" -> 4

\* Little-endian encoding of one non-negative value in n bytes.
LittleEndian(v, n) == [k \in 1..n |-> (v \div Pow256(k - 1)) % 256]

\* struct.pack("<{count}{ch}", *([v] * count)): the encodings, concatenated
\* (byte k belongs to value (k - 1) \div size and is byte (k - 1) % size of
\* its encoding).
StructPack(ch, count, v) ==
    LET size == StructSize(ch)
        encoded == LittleEndian(v, size)
    IN  [k \in 1..(count * size) |-> encoded[((k - 1) % size) + 1]]

\* b'\x00' * n
ZeroBytes(n) == [k \in 1..n |-> 0]

\* Silence of zeros at every width, 8-bit included.
SilencePackZero(sampwidth, total_samples) ==
    CASE sampwidth = 1 -> StructPack("B", total_samples, 0)
      [] sampwidth = 2 -> StructPack("h", total_samples, 0)
      [] sampwidth = 3 -> ZeroBytes(total_samples * 3)
      [] sampwidth = 4 -> StructPack("i", total_samples, 0)

\* The bytes generate_silence builds for a supported width.
SilencePack(sampwidth, total_samples) ==
    CASE sampwidth = 1 -> StructPack("B", total_samples, 128)
      [] sampwidth = 2 -> StructPack("h", total_samples, 0)
      [] sampwidth = 3 -> ZeroBytes(total_samples * 3)
      [] sampwidth = 4 -> StructPack("i", total_samples, 0)

\* generate_silence: the returned bytes and the level of the diagnostic it
\* logs on the way out ("debug" for the silent early returns and success).
generate_silence(duration_sec, framerate, sampwidth, nchannels) ==
    LET num_frames == TruncDiv(duration_sec * framerate, DurDen)
        total_samples == num_frames * nchannels
        expected_bytes == num_frames * nchannels * sampwidth
    IN  IF duration_sec <= 0 THEN [bytes |-> << >>, level |-> "debug"]
        ELSE IF num_frames <= 0 THEN [bytes |-> << >>, level |-> "debug"]
        ELSE IF ~(framerate > 0 /\ sampwidth > 0 /\ nchannels > 0)
             THEN [bytes |-> << >>, level |-> "error"]
        ELSE IF sampwidth \notin {1, 2, 3, 4}
             THEN [bytes |-> << >>, level |-> "error"]
        ELSE LET silence_bytes == SilencePack(sampwidth, total_samples)
             IN  IF sampwidth = 3 /\ Len(silence_bytes) # expected_bytes
                 THEN [bytes |-> << >>, level |-> "error"]
                 ELSE IF Len(silence_bytes) # expected_bytes
                      THEN [bytes |-> silence_bytes, level |-> "warning"]
                      ELSE [bytes |-> silence_bytes, level |-> "debug"]

\* ------------------------------------------------------------------ state

VARIABLES
    segments_with_speaker_id,        \* the input list of combine_wav_segments
    silence_duration_same_speaker,   \* gap between segments of one speaker
    silence_duration_diff_speaker,   \* gap at a speaker change
    pc,                              \* Idle, Validating, Writing, Done, Failed
    i,                               \* position of the running loop (1-based)
    ref_params,                      \* reference (nchannels, sampwidth, framerate)
    valid_segments,                  \* segments collected by the validator
    first_valid_segment_found,
    valid_from,                      \* history: input index of each valid segment
    out_wf,                          \* the output container and its file handle
    total_frames_written,
    last_speaker_id,
    trace,                           \* history: gap and segment steps of Writing
    diag,                            \* error-level diagnostics logged so far
    faults,                          \* environment faults injected so far
    sil                              \* arguments and result of generate_silence

vars ==
    <<segments_with_speaker_id, silence_duration_same_speaker,
      silence_duration_diff_speaker, pc, i, ref_params, valid_segments,
      first_valid_segment_found, valid_from, out_wf, total_frames_written,
      last_speaker_id, trace, diag, faults, sil>>

\* Input lists of length 0..MaxLen.
SegmentLists == UNION {[1..n -> Segments] : n \in 0..MaxLen}

\* The output container before wave.open: no file, nothing written.
NoOutput == [file |-> "none", params |-> NoParams, datawritten |-> 0, closes |-> 0]

\* Placeholder of sil outside the generate_silence specification.
NoCall == [args |-> << >>, called |-> FALSE, bytes |-> << >>, level |-> "debug"]

Init ==
    /\ segments_with_speaker_id \in SegmentLists
    /\ \E g \in GapPairs :
          /\ silence_duration_same_speaker = g[1]
          /\ silence_duration_diff_speaker = g[2]
    /\ pc = "Idle"
    /\ i = 0
    /\ ref_params = NoParams
    /\ valid_segments = << >>
    /\ first_valid_segment_found = FALSE
    /\ valid_from = << >>
    /\ out_wf = NoOutput
    /\ total_frames_written = 0
    /\ last_speaker_id = NoSpeaker
    /\ trace = << >>
    /\ diag = << >>
    /\ faults = 0
    /\ sil = NoCall

\* -------------------------------------------- _validate_and_collect_segments

\* The validator taking each mismatching segment as the new reference.
validate_one_reref(ref, valid, found, seg) ==
    IF seg.wav.kind # "wav"
    THEN [ref |-> ref, valid |-> valid, found |-> found, kept |-> FALSE]
    ELSE IF ~found \/ seg.wav.params = ref
    THEN [ref |-> seg.wav.params, valid |-> Append(valid, seg),
          found |-> TRUE, kept |-> TRUE]
    ELSE [ref |-> seg.wav.params, valid |-> valid, found |-> found, kept |-> FALSE]

\* The validator without the comparison against the reference.
validate_one_keep_all(ref, valid, found, seg) ==
    IF seg.wav.kind # "wav"
    THEN [ref |-> ref, valid |-> valid, found |-> found, kept |-> FALSE]
    ELSE [ref |-> IF found THEN ref ELSE seg.wav.params,
          valid |-> Append(valid, seg), found |-> TRUE, kept |-> TRUE]

\* One iteration of the validator's loop on (speaker_id, wav_bytes): the new
\* (ref_params, valid_segments, first_valid_segment_found) and whether the
\* segment was kept.
validate_one(ref, valid, found, seg) ==
    IF seg.wav.kind = "empty"
    THEN [ref |-> ref, valid |-> valid, found |-> found, kept |-> FALSE]
    ELSE IF seg.wav.kind # "wav"
    THEN [ref |-> ref, valid |-> valid, found |-> found, kept |-> FALSE]
    ELSE LET current_params == seg.wav.params
         IN  IF ~found
             THEN [ref |-> current_params, valid |-> Append(valid, seg),
                   found |-> TRUE, kept |-> TRUE]
             ELSE IF current_params = ref
             THEN [ref |-> ref, valid |-> Append(valid, seg),
                   found |-> found, kept |-> TRUE]
             ELSE [ref |-> ref, valid |-> valid, found |-> found, kept |-> FALSE]

\* combine_wav_segments without the test for an empty input list.
StartUnchecked ==
    /\ pc = "Idle"
    /\ pc' = "Validating"
    /\ i' = 1
    /\ UNCHANGED <<segments_with_speaker_id, silence_duration_same_speaker,
                   silence_duration_diff_speaker, ref_params, valid_segments,
                   first_valid_segment_found, valid_from, out_wf,
                   total_frames_written, last_speaker_id, trace, diag, faults, sil>>

\* combine_wav_segments, lines 368-370 and 373: the empty input returns at
\* once with a warning; any other input enters the validator.
Start ==
    /\ pc = "Idle"
    /\ IF segments_with_speaker_id = << >>
       THEN /\ pc' = "Done"
            /\ i' = i
       ELSE /\ pc' = "Validating"
            /\ i' = 1
    /\ UNCHANGED <<segments_with_speaker_id, silence_duration_same_speaker,
                   silence_duration_diff_speaker, ref_params, valid_segments,
                   first_valid_segment_found, valid_from, out_wf,
                   total_frames_written, last_speaker_id, trace, diag, faults, sil>>

\* One iteration of the loop of _validate_and_collect_segments.
ValidateSegment ==
    /\ pc = "Validating"
    /\ i <= Len(segments_with_speaker_id)
    /\ LET r == validate_one(ref_params, valid_segments,
                             first_valid_segment_found, segments_with_speaker_id[i])
       IN  /\ ref_params' = r.ref
           /\ valid_segments' = r.valid
           /\ first_valid_segment_found' = r.found
           /\ valid_from' = IF r.kept THEN Append(valid_from, i) ELSE valid_from
           /\ diag' = IF segments_with_speaker_id[i].wav.kind = "corrupt"
                      THEN Append(diag, "CorruptContainer") ELSE diag
    /\ i' = i + 1
    /\ UNCHANGED <<segments_with_speaker_id, silence_duration_same_speaker,
                   silence_duration_diff_speaker, pc, out_wf,
                   total_frames_written, last_speaker_id, trace, faults, sil>>

\* --------------------------------------------------- the output container

\* out_wf.writeframesraw(data) on an open Wave_write: the data chunk grows by
\* len(data); when the write raises (ioErr) nothing is accounted.
writeframesraw(wf, nbytes, ioErr) ==
    IF ioErr THEN wf ELSE [wf EXCEPT !.datawritten = @ + nbytes]

\* A close that leaves the file open when patching or flushing raises.
close_leaking(wf, closeErr) ==
    IF closeErr THEN wf ELSE [wf EXCEPT !.file = "closed", !.closes = @ + 1]

\* Leaving the with block: Wave_write.close() patches the header and flushes,
\* which may raise (closeErr), and closes the file in its finally clause.
close(wf, closeErr) == [wf EXCEPT !.file = "closed", !.closes = @ + 1]

\* Frames a reader finds in the output container: its data chunk size over
\* the frame size of the format it was opened with.
OutputFrames(wf) ==
    IF wf.params = NoParams THEN 0
    ELSE wf.datawritten \div (wf.params[1] * wf.params[2])

\* ------------------------------------------------------------ _write_silence

\* _write_silence(out_wf, duration, params): the container afterwards, the
\* frame count returned, the bytes written and the fault that took effect
\* (memErr: generate_silence runs out of memory; ioErr: the write raises).
write_silence(wf, duration, params, memErr, ioErr) ==
    IF duration <= 0 \/ params = NoParams
    THEN [wf |-> wf, frames |-> 0, wrote |-> 0, fault |-> "none"]
    ELSE LET nchannels == params[1]
             sampwidth == params[2]
             framerate == params[3]
             made == generate_silence(duration, framerate, sampwidth, nchannels).bytes
             silence_frames_data == IF memErr THEN << >> ELSE made
             bytes_per_silence_frame == nchannels * sampwidth
         IN  IF silence_frames_data # << >>
             THEN IF ioErr
                  THEN [wf |-> wf, frames |-> 0, wrote |-> 0, fault |-> "write"]
                  ELSE [wf |-> writeframesraw(wf, Len(silence_frames_data), FALSE),
                        frames |-> IF bytes_per_silence_frame > 0
                                   THEN Len(silence_frames_data) \div bytes_per_silence_frame
                                   ELSE 0,
                        wrote |-> Len(silence_frames_data),
                        fault |-> "none"]
             ELSE [wf |-> wf, frames |-> 0, wrote |-> 0,
                   fault |-> IF memErr /\ made # << >> THEN "synth" ELSE "none"]

\* ------------------------------------------------------------ _write_segment

\* _write_segment counting frames by the sample width alone.
write_segment_per_sample(wf, wav_bytes, readErr, ioErr) ==
    IF wav_bytes.kind # "wav" \/ readErr
    THEN [wf |-> wf, frames |-> 0, wrote |-> 0,
          fault |-> IF readErr THEN "read" ELSE "none"]
    ELSE LET nbytes == wav_bytes.nframes * wav_bytes.params[1] * wav_bytes.params[2]
         IN  IF nbytes > 0
             THEN IF ioErr
                  THEN [wf |-> wf, frames |-> 0, wrote |-> 0, fault |-> "write"]
                  ELSE [wf |-> writeframesraw(wf, nbytes, FALSE),
                        frames |-> nbytes \div wav_bytes.params[2],
                        wrote |-> nbytes,
                        fault |-> "none"]
             ELSE [wf |-> wf, frames |-> 0, wrote |-> 0, fault |-> "none"]

\* _write_segment(out_wf, wav_bytes, label): as above (readErr: opening the
\* container or reading its frames raises; ioErr: the write raises).
write_segment(wf, wav_bytes, readErr, ioErr) ==
    IF wav_bytes.kind # "wav" \/ readErr
    THEN [wf |-> wf, frames |-> 0, wrote |-> 0,
          fault |-> IF readErr THEN "read" ELSE "none"]
    ELSE LET nbytes == wav_bytes.nframes * wav_bytes.params[1] * wav_bytes.params[2]
             bytes_per_frame == wav_bytes.params[1] * wav_bytes.params[2]
         IN  IF nbytes > 0
             THEN IF ioErr
                  THEN [wf |-> wf, frames |-> 0, wrote |-> 0, fault |-> "write"]
                  ELSE [wf |-> writeframesraw(wf, nbytes, FALSE),
                        frames |-> IF bytes_per_frame > 0
                                   THEN nbytes \div bytes_per_frame ELSE 0,
                        wrote |-> nbytes,
                        fault |-> "none"]
             ELSE [wf |-> wf, frames |-> 0, wrote |-> 0, fault |-> "none"]

\* ------------------------------------------------------ combine_wav_segments

\* The gap with the two durations exchanged.
gap_duration_swapped(current_speaker_id, last, same, diff) ==
    IF current_speaker_id # last THEN same ELSE diff

\* The gap chosen before a segment (lines 398-399).
gap_duration(current_speaker_id, last, same, diff) ==
    IF current_speaker_id # last THEN diff ELSE same

\* Line 375 with the test on the reference inverted.
nothing_to_combine_inverted(valid, ref) == valid = << >> /\ ref # NoParams

\* Line 375: nothing to combine after validation.
nothing_to_combine(valid, ref) == valid = << >> \/ ref = NoParams

\* Line 412 remembering the speaker only of a segment that wrote frames.
next_last_speaker_id_if_written(current_speaker_id, last, frames_from_segment) ==
    IF frames_from_segment > 0 THEN current_speaker_id ELSE last

\* Line 412: the speaker remembered after a segment, written or skipped.
next_last_speaker_id(current_speaker_id, last, frames_from_segment) ==
    current_speaker_id

\* wave.open(..., 'wb') and the three setters accept the parameters.
WritableParams(p) == p # NoParams /\ p[1] >= 1 /\ p[2] \in 1..4 /\ p[3] > 0

\* End of the validator (lines 294-302) and lines 375-391: without a valid
\* segment the run fails before any file is opened; otherwise the output
\* container is opened, which the environment may refuse.
FinishValidating ==
    /\ pc = "Validating"
    /\ i > Len(segments_with_speaker_id)
    /\ IF nothing_to_combine(valid_segments, ref_params)
       THEN /\ pc' = "Failed"
            /\ diag' = Append(diag, "NoValidSegments")
            /\ UNCHANGED <<i, out_wf, faults>>
       ELSE \E openErr \in BOOLEAN :
            /\ openErr => faults < MaxFaults
            /\ faults' = IF openErr THEN faults + 1 ELSE faults
            /\ IF openErr
               THEN /\ pc' = "Failed"
                    /\ diag' = Append(diag, "OutputWriteFailure")
                    /\ UNCHANGED <<i, out_wf>>
               ELSE IF ~WritableParams(ref_params)
               THEN /\ pc' = "Failed"
                    /\ diag' = Append(diag, "OutputWriteFailure")
                    /\ out_wf' = close([file |-> "open", params |-> NoParams,
                                        datawritten |-> 0, closes |-> 0], TRUE)
                    /\ i' = i
               ELSE /\ pc' = "Writing"
                    /\ diag' = diag
                    /\ out_wf' = [file |-> "open", params |-> ref_params,
                                  datawritten |-> 0, closes |-> 0]
                    /\ i' = 1
    /\ total_frames_written' = 0
    /\ last_speaker_id' = NoSpeaker
    /\ UNCHANGED <<segments_with_speaker_id, silence_duration_same_speaker,
                   silence_duration_diff_speaker, ref_params, valid_segments,
                   first_valid_segment_found, valid_from, trace, sil>>

\* One step of the history: what a gap or a segment step did, and the offset
\* in the data chunk of the output at which its bytes start.
Step(what, idx, arg, r) ==
    [what |-> what, idx |-> idx, arg |-> arg, wrote |-> r.wrote,
     frames |-> r.frames, fault |-> r.fault, at |-> r.wf.datawritten - r.wrote]

\* The writing loop with the segment written before the gap that belongs in
\* front of it.
CombineSegmentPayloadFirst ==
    /\ pc = "Writing"
    /\ i <= Len(valid_segments)
    /\ \E gf \in {"none", "synth", "write"}, sf \in {"none", "read", "write"} :
         LET current_speaker_id == valid_segments[i].speaker
             wav_bytes == valid_segments[i].wav
             has_gap == i > 1 /\ last_speaker_id # NoSpeaker
             duration == gap_duration(current_speaker_id, last_speaker_id,
                                      silence_duration_same_speaker,
                                      silence_duration_diff_speaker)
             n == (IF gf = "none" THEN 0 ELSE 1) + (IF sf = "none" THEN 0 ELSE 1)
         IN  /\ faults + n <= MaxFaults
             /\ \E s \in {write_segment(out_wf, wav_bytes,
                                        sf = "read", sf = "write")} :
                  /\ s.fault = sf
                  /\ \E g \in {IF has_gap /\ duration > 0
                               THEN write_silence(s.wf, duration, ref_params,
                                                  gf = "synth", gf = "write")
                               ELSE [wf |-> s.wf, frames |-> 0, wrote |-> 0,
                                     fault |-> "none"]} :
                       /\ g.fault = gf
                       /\ faults' = faults + n
                       /\ out_wf' = g.wf
                       /\ total_frames_written' =
                              total_frames_written + g.frames + s.frames
                       /\ last_speaker_id' =
                              next_last_speaker_id(current_speaker_id,
                                                   last_speaker_id, s.frames)
                       /\ trace' = Append(trace, Step("segment", i, current_speaker_id, s))
                                   \o (IF has_gap
                                       THEN <<Step("gap", i, duration, g)>>
                                       ELSE << >>)
    /\ i' = i + 1
    /\ UNCHANGED <<segments_with_speaker_id, silence_duration_same_speaker,
                   silence_duration_diff_speaker, pc, ref_params, valid_segments,
                   first_valid_segment_found, valid_from, diag, sil>>

\* One iteration of the writing loop (lines 393-412): the gap, when the
\* segment is not the first, then the segment, then last_speaker_id.
CombineSegment ==
    /\ pc = "Writing"
    /\ i <= Len(valid_segments)
    /\ \E gf \in {"none", "synth", "write"}, sf \in {"none", "read", "write"} :
         LET current_speaker_id == valid_segments[i].speaker
             wav_bytes == valid_segments[i].wav
             has_gap == i > 1 /\ last_speaker_id # NoSpeaker
             duration == gap_duration(current_speaker_id, last_speaker_id,
                                      silence_duration_same_speaker,
                                      silence_duration_diff_speaker)
             n == (IF gf = "none" THEN 0 ELSE 1) + (IF sf = "none" THEN 0 ELSE 1)
         IN  /\ faults + n <= MaxFaults
             /\ \E g \in {IF has_gap /\ duration > 0
                          THEN write_silence(out_wf, duration, ref_params,
                                             gf = "synth", gf = "write")
                          ELSE [wf |-> out_wf, frames |-> 0, wrote |-> 0,
                                fault |-> "none"]} :
                  /\ g.fault = gf
                  /\ \E s \in {write_segment(g.wf, wav_bytes,
                                             sf = "read", sf = "write")} :
                       /\ s.fault = sf
                       /\ faults' = faults + n
                       /\ out_wf' = s.wf
                       /\ total_frames_written' =
                              total_frames_written + g.frames + s.frames
                       /\ last_speaker_id' =
                              next_last_speaker_id(current_speaker_id,
                                                   last_speaker_id, s.frames)
                       /\ trace' = (IF has_gap
                                    THEN Append(trace, Step("gap", i, duration, g))
                                    ELSE trace)
                                   \o <<Step("segment", i, current_speaker_id, s)>>
    /\ i' = i + 1
    /\ UNCHANGED <<segments_with_speaker_id, silence_duration_same_speaker,
                   silence_duration_diff_speaker, pc, ref_params, valid_segments,
                   first_valid_segment_found, valid_from, diag, sil>>

\* End of the loop (lines 414-425): the summary is logged and the with block
\* closes the container; a failing close raises into the outer handler.  The
\* file itself is closed in either case (Wave_write.close, finally).
FinishWriting ==
    /\ pc = "Writing"
    /\ i > Len(valid_segments)
    /\ \E closeErr \in BOOLEAN :
         /\ closeErr => faults < MaxFaults
         /\ faults' = IF closeErr THEN faults + 1 ELSE faults
         /\ pc' = IF closeErr THEN "Failed" ELSE "Done"
         /\ diag' = IF closeErr THEN Append(diag, "OutputWriteFailure") ELSE diag
         /\ out_wf' = close(out_wf, closeErr)
    /\ UNCHANGED <<segments_with_speaker_id, silence_duration_same_speaker,
                   silence_duration_diff_speaker, i, ref_params, valid_segments,
                   first_valid_segment_found, valid_from, total_frames_written,
                   last_speaker_id, trace, sil>>

Next ==
    \/ Start
    \/ ValidateSegment
    \/ FinishValidating
    \/ CombineSegment
    \/ FinishWriting

Spec == Init /\ [][Next]_vars

\* The pipeline is sequential, synchronous code without cancellation: a step
\* that can be taken is taken.
SpecFair == Init /\ [][Next]_vars /\ WF_vars(Next)

\* ------------------------------------- generate_silence, called on its own

\* Largest duration (in 1/DurDen s), frame rate, sample width and channel
\* count handed to generate_silence; each range starts at a non-positive value.
MaxDuration == 6
MaxRate == 3
MaxWidth == 5
MaxChannels == 2

InitSilence ==
    /\ \E d \in (0 - 1)..MaxDuration, fr \in 0..MaxRate,
          sw \in 0..MaxWidth, nch \in 0..MaxChannels :
          sil = [args |-> <<d, fr, sw, nch>>, called |-> FALSE,
                 bytes |-> << >>, level |-> "debug"]
    /\ segments_with_speaker_id = << >>
    /\ silence_duration_same_speaker = 0
    /\ silence_duration_diff_speaker = 0
    /\ pc = "Silence"
    /\ i = 0
    /\ ref_params = NoParams
    /\ valid_segments = << >>
    /\ first_valid_segment_found = FALSE
    /\ valid_from = << >>
    /\ out_wf = NoOutput
    /\ total_frames_written = 0
    /\ last_speaker_id = NoSpeaker
    /\ trace = << >>
    /\ diag = << >>
    /\ faults = 0

\* generate_silence(duration_sec, framerate, sampwidth, nchannels)
CallGenerateSilence ==
    /\ pc = "Silence"
    /\ ~sil.called
    /\ \E r \in {generate_silence(sil.args[1], sil.args[2], sil.args[3], sil.args[4])} :
         sil' = [args |-> sil.args, called |-> TRUE,
                 bytes |-> r.bytes, level |-> r.level]
    /\ UNCHANGED <<segments_with_speaker_id, silence_duration_same_speaker,
                   silence_duration_diff_speaker, pc, i, ref_params, valid_segments,
                   first_valid_segment_found, valid_from, out_wf,
                   total_frames_written, last_speaker_id, trace, diag, faults>>

NextSilence == CallGenerateSilence

SpecSilence == InitSilence /\ [][NextSilence]_vars

\* ------------------------------------- the two scenarios at 44100 Hz

\* Mono, 16-bit, 44100 Hz.
Fmt44k == <<1, 2, 44100>>

\* Segments of 4410, 2205 and 1000 frames, by either speaker.
ScenarioSegments ==
    [speaker : SpeakerIds,
     wav : {Wav(Fmt44k, 4410), Wav(Fmt44k, 2205), Wav(Fmt44k, 1000)}]

\* One or two such segments.
ScenarioLists == UNION {[1..n -> ScenarioSegments] : n \in 1..2}

\* combine_wav_segments on the scenario inputs, with a same-speaker gap of
\* 1/8 s and a different-speaker gap of 1/4 s.
InitScenario ==
    /\ segments_with_speaker_id \in ScenarioLists
    /\ silence_duration_same_speaker = DurDen \div 8
    /\ silence_duration_diff_speaker = DurDen \div 4
    /\ pc = "Idle"
    /\ i = 0
    /\ ref_params = NoParams
    /\ valid_segments = << >>
    /\ first_valid_segment_found = FALSE
    /\ valid_from = << >>
    /\ out_wf = NoOutput
    /\ total_frames_written = 0
    /\ last_speaker_id = NoSpeaker
    /\ trace = << >>
    /\ diag = << >>
    /\ faults = 0
    /\ sil = NoCall

SpecScenario == InitScenario /\ [][Next]_vars

\* ------------------------------------------------------------ properties

\* floor(a / b) for a >= 0, b > 0, stated without division.
Floor(a, b) == CHOOSE n \in 0..a : n * b <= a /\ a < (n + 1) * b

RECURSIVE SumFrames(_)
SumFrames(t) == IF t = << >> THEN 0 ELSE Head(t).frames + SumFrames(Tail(t))

\* Frames of the silence buffers written, from their byte lengths.
RECURSIVE SilenceFrames(_, _)
SilenceFrames(t, frame_size) ==
    IF t = << >> THEN 0
    ELSE (IF Head(t).what = "gap" THEN Head(t).wrote \div frame_size ELSE 0)
         + SilenceFrames(Tail(t), frame_size)

RECURSIVE InputFrames(_)
InputFrames(l) == IF l = << >> THEN 0 ELSE Head(l).wav.nframes + InputFrames(Tail(l))

Terminal == pc \in {"Done", "Failed"}

\* Every input segment parses and they share one format.
AllCompatible ==
    /\ segments_with_speaker_id # << >>
    /\ \A k \in 1..Len(segments_with_speaker_id) :
          /\ segments_with_speaker_id[k].wav.kind = "wav"
          /\ segments_with_speaker_id[k].wav.params = segments_with_speaker_id[1].wav.params

\* No read, write or memory error took effect during Writing.
NoFault == \A n \in 1..Len(trace) : trace[n].fault = "none"

\* Validated segments the writing loop has gone through.
Written == IF out_wf.params = NoParams THEN {} ELSE 1..(i - 1)

\* C1: the frames a reader finds in the output container are the frames the
\* combiner counted, and for an input whose segments all parse and share one
\* format (no read, write or memory error taking effect) that number is the
\* sum of the segments' frame counts plus the frames of the silence buffers
\* written between them.
C1_FrameConservation ==
    /\ out_wf.params # NoParams => OutputFrames(out_wf) = total_frames_written
    /\ (pc = "Done" /\ AllCompatible /\ NoFault) =>
          /\ total_frames_written =
                InputFrames(segments_with_speaker_id)
                + SilenceFrames(trace, ref_params[1] * ref_params[2])
          /\ OutputFrames(out_wf) = total_frames_written

C1_Witness ==
    /\ pc = "Done" /\ AllCompatible /\ NoFault
    /\ Len(segments_with_speaker_id) = 3
    /\ ref_params = FmtA
    /\ SilenceFrames(trace, 2) = 3
    /\ total_frames_written = 7

\* C2: every validated segment but the first is preceded by exactly one gap
\* decision, whose duration is the same-speaker gap when its speaker id equals
\* that of the preceding validated segment and the different-speaker gap
\* otherwise; a positive duration written without a fault inserts
\* floor(duration * framerate) frames, a zero or negative one writes nothing
\* and counts no frames.
C2_GapBySpeaker ==
    /\ \A n \in 1..Len(trace) :
          trace[n].what = "gap" =>
             LET k == trace[n].idx
                 d == trace[n].arg
             IN  /\ k > 1
                 /\ d = IF valid_segments[k].speaker = valid_segments[k - 1].speaker
                        THEN silence_duration_same_speaker
                        ELSE silence_duration_diff_speaker
                 /\ d <= 0 => trace[n].wrote = 0 /\ trace[n].frames = 0
                 /\ (d > 0 /\ trace[n].fault = "none") =>
                       /\ trace[n].frames = Floor(d * ref_params[3], DurDen)
                       /\ trace[n].wrote =
                             trace[n].frames * ref_params[1] * ref_params[2]
    /\ \A k \in Written :
          Cardinality({n \in 1..Len(trace) :
                          trace[n].what = "gap" /\ trace[n].idx = k})
             = IF k > 1 THEN 1 ELSE 0
    /\ total_frames_written = SumFrames(trace)

C2_Witness ==
    /\ pc = "Done"
    /\ \E a, b \in 1..Len(trace) :
          /\ trace[a].what = "gap" /\ trace[a].arg > 0 /\ trace[a].wrote > 0
          /\ valid_segments[trace[a].idx].speaker = valid_segments[trace[a].idx - 1].speaker
          /\ trace[b].what = "gap" /\ trace[b].arg < 0
          /\ valid_segments[trace[b].idx].speaker # valid_segments[trace[b].idx - 1].speaker

\* Input positions the validator has gone through.
Validated ==
    IF pc \in {"Idle", "Silence"} THEN {}
    ELSE IF pc = "Validating" THEN 1..(i - 1)
    ELSE 1..Len(segments_with_speaker_id)

\* Validated input positions whose container parses.
Parsed == {k \in Validated : segments_with_speaker_id[k].wav.kind = "wav"}

Min(S) == CHOOSE m \in S : \A n \in S : m <= n

\* C3: the reference format is the format of the first input segment that
\* parses, from the moment the validator has seen it until the end of the run,
\* and a later segment whose format differs from it is not in the batch.
C3_ReferenceFixed ==
    /\ Parsed = {} => ref_params = NoParams /\ ~first_valid_segment_found
    /\ Parsed # {} =>
          /\ first_valid_segment_found
          /\ ref_params = segments_with_speaker_id[Min(Parsed)].wav.params
          /\ \A k \in Parsed :
                segments_with_speaker_id[k].wav.params # ref_params =>
                   \A n \in 1..Len(valid_from) : valid_from[n] # k

C3_Witness ==
    /\ Terminal
    /\ Len(segments_with_speaker_id) = 3
    /\ segments_with_speaker_id[1].wav.kind = "corrupt"
    /\ segments_with_speaker_id[2].wav = Wav(FmtB, 1)
    /\ segments_with_speaker_id[3].wav = Wav(FmtA, 2)
    /\ ref_params = FmtB
    /\ valid_from = <<2>>

\* The batch holds segments of the reference format, in input order.
BatchOrdered ==
    /\ Len(valid_from) = Len(valid_segments)
    /\ \A n \in 1..Len(valid_segments) :
          /\ valid_segments[n].wav.params = ref_params
          /\ valid_from[n] \in Validated
          /\ valid_segments[n] = segments_with_speaker_id[valid_from[n]]
    /\ \A n, m \in 1..Len(valid_from) : n < m => valid_from[n] < valid_from[m]

\* C4 as stated: every segment of the batch has the reference format, the
\* batch is a subsequence of the input in input order, and it holds neither an
\* empty byte buffer nor a container of zero frames.
C4_NoZeroFrameContainer ==
    /\ BatchOrdered
    /\ \A n \in 1..Len(valid_segments) :
          /\ valid_segments[n].wav.kind # "empty"
          /\ valid_segments[n].wav.nframes > 0

\* C4, amended: every segment of the batch has the reference format, the
\* batch is a subsequence of the input in input order, and it holds no empty
\* byte buffer and no container that fails to parse; every parsing segment of
\* the reference format is in it, holding frames or not.
C4_BatchInvariant ==
    /\ BatchOrdered
    /\ \A n \in 1..Len(valid_segments) : valid_segments[n].wav.kind = "wav"
    /\ \A k \in Parsed :
          segments_with_speaker_id[k].wav.params = ref_params =>
             \E n \in 1..Len(valid_from) : valid_from[n] = k

C4_Witness ==
    /\ Terminal
    /\ Len(segments_with_speaker_id) = 3
    /\ segments_with_speaker_id[1].wav.kind = "empty"
    /\ valid_from = <<2, 3>>
    /\ valid_segments[1].wav.nframes = 0
    /\ valid_segments[2].wav.nframes = 2

\* No input segment parses, in a non-empty input.
NoneParses ==
    /\ segments_with_speaker_id # << >>
    /\ \A k \in 1..Len(segments_with_speaker_id) :
          segments_with_speaker_id[k].wav.kind # "wav"

\* C5: on a non-empty input none of whose segments parses, the output
\* container is never opened, the run never reaches Writing or Done, and it
\* ends Failed with NoValidSegments as its last diagnostic.
C5_NoValidSegments ==
    NoneParses =>
       /\ out_wf = NoOutput
       /\ pc \in {"Idle", "Validating", "Failed"}
       /\ pc = "Failed" => /\ diag # << >>
                           /\ diag[Len(diag)] = "NoValidSegments"
                           /\ valid_segments = << >>

C5_Witness ==
    /\ NoneParses
    /\ pc = "Failed"
    /\ Len(segments_with_speaker_id) = 3
    /\ segments_with_speaker_id[1].wav.kind = "empty"
    /\ segments_with_speaker_id[2].wav.kind = "corrupt"

\* C6: on the empty input list the run is only ever Idle or Done: it enters
\* neither Validating nor Writing nor Failed, logs no error and opens no
\* output container.
C6_EmptyInput ==
    segments_with_speaker_id = << >> =>
       /\ pc \in {"Idle", "Done"}
       /\ out_wf = NoOutput
       /\ diag = << >>
       /\ i = 0
       /\ valid_segments = << >>

C6_Witness == segments_with_speaker_id = << >> /\ pc = "Done"

\* C7 as stated: after a write to the output container has failed nothing
\* more is written, and a run in which a write failed does not end in Done.
C7_WriteErrorFatal ==
    /\ \A a, b \in 1..Len(trace) :
          (a < b /\ trace[a].fault = "write") => trace[b].wrote = 0
    /\ (\E a \in 1..Len(trace) : trace[a].fault = "write") => pc # "Done"

\* C8: a failing read of a segment or a failing synthesis of a gap skips that
\* payload or gap alone: the loop goes through every validated segment,
\* last_speaker_id is the speaker of the segment gone through last (skipped
\* or not), a run that fails after the container was opened fails only at the
\* close that follows the last segment, and a run without such a failure of
\* the container ends in Done whatever was skipped.
C8_SkipsNotFatal ==
    /\ \A k \in Written :
          Cardinality({n \in 1..Len(trace) :
                          trace[n].what = "segment" /\ trace[n].idx = k}) = 1
    /\ \A n \in 1..Len(trace) :
          trace[n].fault \in {"read", "synth"} =>
             trace[n].wrote = 0 /\ trace[n].frames = 0
    /\ Written # {} => last_speaker_id = valid_segments[i - 1].speaker
    /\ (pc = "Failed" /\ out_wf.params # NoParams) =>
          /\ Written = 1..Len(valid_segments)
          /\ diag[Len(diag)] = "OutputWriteFailure"
    /\ (pc = "Done" /\ segments_with_speaker_id # << >>) =>
          Written = 1..Len(valid_segments)
    /\ (Terminal /\ out_wf.params # NoParams
          /\ \A n \in 1..Len(diag) : diag[n] # "OutputWriteFailure") => pc = "Done"

C8_Witness ==
    /\ pc = "Done"
    /\ Len(valid_segments) = 3
    /\ \E a, b \in 1..Len(trace) :
          /\ trace[a].fault = "read" /\ trace[a].idx = 1
          /\ trace[b].fault = "synth" /\ trace[b].idx = 2
    /\ total_frames_written > 0

\* C9: the file of the output container is closed at most once, it is open
\* throughout Writing, and in Done or Failed a container that was opened is
\* closed, exactly once.
C9_ClosedOnce ==
    /\ out_wf.closes <= 1
    /\ out_wf.file = "closed" <=> out_wf.closes = 1
    /\ pc = "Writing" => out_wf.file = "open"
    /\ out_wf.file = "open" => pc = "Writing"
    /\ (Terminal /\ out_wf.file # "none") =>
          out_wf.file = "closed" /\ out_wf.closes = 1

C9_Witness ==
    /\ pc = "Failed"
    /\ out_wf.file = "closed"
    /\ out_wf.closes = 1
    /\ out_wf.datawritten > 0

\* C10: for a positive duration, frame rate and channel count with
\* frameCount = floor(duration * frameRate) > 0, generate_silence returns
\* frameCount * channelCount * sampleWidth bytes for the widths 1 to 4, all 128
\* at width 1 and all 0 at widths 2, 3 and 4, and the empty buffer with an
\* error for any other width; no returned buffer is non-empty with another
\* length.
C10_SilenceBuffer ==
    sil.called =>
       LET d == sil.args[1]
           fr == sil.args[2]
           sw == sil.args[3]
           nch == sil.args[4]
       IN  (d > 0 /\ fr > 0 /\ nch > 0) =>
              LET frameCount == Floor(d * fr, DurDen)
              IN  /\ (frameCount > 0 /\ sw \in 1..4) =>
                        /\ Len(sil.bytes) = frameCount * nch * sw
                        /\ \A k \in 1..Len(sil.bytes) :
                              sil.bytes[k] = IF sw = 1 THEN 128 ELSE 0
                  /\ (frameCount > 0 /\ sw \notin 1..4) =>
                        sil.bytes = << >> /\ sil.level = "error"
                  /\ sil.bytes # << >> => Len(sil.bytes) = frameCount * nch * sw

C10_Witness ==
    /\ sil.called
    /\ sil.args = <<6, 3, 1, 2>>
    /\ sil.bytes = <<128, 128, 128, 128>>

\* Scenario A: speaker 0 with 4410 frames, then speaker 1 with 2205 frames.
ScenarioA ==
    segments_with_speaker_id =
       <<[speaker |-> 0, wav |-> Wav(Fmt44k, 4410)],
         [speaker |-> 1, wav |-> Wav(Fmt44k, 2205)]>>

\* Scenario B: speaker 0 twice, 1000 frames each.
ScenarioB ==
    segments_with_speaker_id =
       <<[speaker |-> 0, wav |-> Wav(Fmt44k, 1000)],
         [speaker |-> 0, wav |-> Wav(Fmt44k, 1000)]>>

\* C11: a positive gap written without a fault inserts the largest whole
\* number of frames not above duration * framerate, never one more; at mono
\* 16-bit 44100 Hz a speaker change with a gap of 1/4 s inserts 11025 frames
\* (4410 + 11025 + 2205 = 17640 frames in the output) and the same speaker
\* twice with a gap of 1/8 s inserts 5512 frames (1000 + 5512 + 1000 = 7512).
C11_GapFramesFloor ==
    /\ \A n \in 1..Len(trace) :
          (trace[n].what = "gap" /\ trace[n].arg > 0 /\ trace[n].fault = "none") =>
             /\ trace[n].frames * DurDen <= trace[n].arg * ref_params[3]
             /\ trace[n].arg * ref_params[3] < (trace[n].frames + 1) * DurDen
             /\ trace[n].wrote = trace[n].frames * ref_params[1] * ref_params[2]
    /\ (pc = "Done" /\ NoFault /\ ScenarioA /\ 4 * silence_duration_diff_speaker = DurDen) =>
          /\ trace[2].what = "gap" /\ trace[2].frames = 11025
          /\ total_frames_written = 17640
          /\ OutputFrames(out_wf) = 17640
    /\ (pc = "Done" /\ NoFault /\ ScenarioB /\ 8 * silence_duration_same_speaker = DurDen) =>
          /\ trace[2].what = "gap" /\ trace[2].frames = 5512
          /\ total_frames_written = 7512
          /\ OutputFrames(out_wf) = 7512

C11_Witness ==
    /\ pc = "Done" /\ NoFault /\ ScenarioB
    /\ 8 * silence_duration_same_speaker = DurDen
    /\ out_wf.datawritten = 15024
    /\ total_frames_written = 7512

\* C12: the steps of Writing lay their bytes out one after the other in the
\* data chunk of the output; the segment steps come in the order of the
\* batch, which is input order, one step per segment; and the gap chosen for
\* a segment comes right after the step of the segment before it and right
\* before its own.
C12_WrittenInInputOrder ==
    /\ \A n \in 1..Len(trace) :
          /\ trace[n].at = IF n = 1 THEN 0 ELSE trace[n - 1].at + trace[n - 1].wrote
          /\ trace[n].what = "segment" =>
                /\ trace[n].idx \in 1..Len(valid_segments)
                /\ trace[n].wrote \in
                      {0, valid_segments[trace[n].idx].wav.nframes
                             * ref_params[1] * ref_params[2]}
          /\ trace[n].what = "gap" =>
                /\ n > 1 /\ n < Len(trace)
                /\ trace[n - 1].what = "segment" /\ trace[n - 1].idx = trace[n].idx - 1
                /\ trace[n + 1].what = "segment" /\ trace[n + 1].idx = trace[n].idx
    /\ \A a, b \in 1..Len(trace) :
          (a < b /\ trace[a].what = "segment" /\ trace[b].what = "segment") =>
             /\ trace[a].idx < trace[b].idx
             /\ valid_from[trace[a].idx] < valid_from[trace[b].idx]
             /\ trace[a].at + trace[a].wrote <= trace[b].at
    /\ trace # << >> =>
          out_wf.datawritten = trace[Len(trace)].at + trace[Len(trace)].wrote

C12_Witness ==
    /\ pc = "Done" /\ NoFault
    /\ Len(trace) = 5
    /\ valid_from = <<1, 2, 3>>
    /\ trace[2].wrote > 0 /\ trace[4].wrote > 0
    /\ trace[3].at = 6 /\ trace[5].at > trace[4].at

\* The transitions of the combiner's state.
AllowedTransitions ==
    {<<"Idle", "Validating">>, <<"Idle", "Done">>,
     <<"Validating", "Failed">>, <<"Validating", "Writing">>,
     <<"Writing", "Done">>, <<"Writing", "Failed">>}

\* The output container exists only once the validator has gone through the
\* whole input and kept at least one segment.
OpenedAfterValidation ==
    out_wf # NoOutput =>
       /\ pc \in {"Writing", "Done", "Failed"}
       /\ Validated = 1..Len(segments_with_speaker_id)
       /\ valid_segments # << >>

\* C13: every run reaches Done or Failed; a step that changes the state of the
\* combiner takes one of the transitions Idle->Validating, Idle->Done,
\* Validating->Failed, Validating->Writing, Writing->Done, Writing->Failed;
\* and the output container is opened only after the validation of the whole
\* input has ended with at least one valid segment.
C13_RunsToCompletion ==
    /\ <>Terminal
    /\ [][pc' # pc => <<pc, pc'>> \in AllowedTransitions]_vars
    /\ []OpenedAfterValidation

C13_Witness ==
    /\ pc = "Done"
    /\ out_wf.file = "closed"
    /\ Len(segments_with_speaker_id) = 3
    /\ Len(valid_segments) = 2
    /\ out_wf.datawritten > 0

\* Input positions of the segments that parse with the format of the first
\* parsing segment, and the n-th of a set of positions in input order.
ValidPositions ==
    LET parsed == Parsed
    IN  IF parsed = {} THEN {}
        ELSE LET first == segments_with_speaker_id[Min(parsed)].wav.params
             IN  {k \in parsed : segments_with_speaker_id[k].wav.params = first}

Nth(positions, n) ==
    CHOOSE k \in positions : Cardinality({j \in positions : j <= k}) = n

GapSteps == {n \in 1..Len(trace) : trace[n].what = "gap"}

\* C14: the gap before a validated segment is chosen by its speaker id and
\* that of the nearest input segment before it that was validated, whatever
\* dropped segments lie between the two; there is one gap decision per pair
\* of adjacent validated segments gone through; the first and the last step
\* of Writing are segments, and at most validCount - 1 silences are written.
C14_DroppedTakeNoPart ==
    /\ trace = << >> => Written = {}
    /\ trace # << >> =>
          \A positions \in {ValidPositions}, gaps \in {GapSteps} :
             /\ \A n \in gaps :
                   LET k == trace[n].idx
                   IN  /\ k \in 2..Cardinality(positions)
                       /\ trace[n].arg =
                             IF segments_with_speaker_id[Nth(positions, k)].speaker
                                   = segments_with_speaker_id[Nth(positions, k - 1)].speaker
                             THEN silence_duration_same_speaker
                             ELSE silence_duration_diff_speaker
             /\ \A a, b \in gaps : trace[a].idx = trace[b].idx => a = b
             /\ Cardinality(gaps) = Cardinality(Written) - 1
             /\ trace[1].what = "segment"
             /\ trace[Len(trace)].what = "segment"
             /\ Cardinality({n \in gaps : trace[n].wrote > 0})
                   <= Cardinality(positions) - 1
             /\ pc = "Done" => Cardinality(Written) = Cardinality(positions)

C14_Witness ==
    /\ pc = "Done"
    /\ Len(segments_with_speaker_id) = 3
    /\ segments_with_speaker_id[1].speaker = 1
    /\ segments_with_speaker_id[2] = [speaker |-> 0, wav |-> Wav(FmtB, 1)]
    /\ segments_with_speaker_id[3].speaker = 1
    /\ valid_from = <<1, 3>>
    /\ Len(trace) = 3
    /\ trace[2].arg = silence_duration_same_speaker
    /\ trace[2].wrote > 0

====
